---------------------------- MODULE Spec2Model ----------------------------
(***************************************************************************)
(* Model of the DICOM anonymization engine of sneaky-vaccine               *)
(* (src/src/dicom_processing/dicom_anonimizer.py and its collaborators).   *)
(*                                                                         *)
(* Strings of the program (attribute keywords, folder and file names) are  *)
(* sequences of one-character strings, so that lower(), "in", startswith,  *)
(* endswith, split, int() and sorted() are computed, not assumed.          *)
(* Numeric attribute values are scaled by 100 (0.4 is 40, 0.32 is 32).     *)
(***************************************************************************)
EXTENDS Integers, Sequences, FiniteSets, TLC

VARIABLES
  \* one record going through repair_dicom and anonymize_dicom
  rec0,      \* the record as read from the file
  rec,       \* the in-memory record (dicom_data)
  rstage,    \* "none", or "read" -> "repaired" -> "anonymized"
  \* the file system
  zips,      \* the archives lying in ZIPS_PATH
  dir,       \* UNZIPED_PATH: folder name -> sequence of files
  \* the main thread
  pc,        \* where the main thread stands
  entry,     \* the method the caller invoked: "run", "folders", "batch"
  calls,     \* number of invocations made so far
  raised,    \* the exception that left the last invocation, or "none"
  startIndex,\* start_index handed to anonimize_all_patients
  af,        \* locals of anonimize_folders
  unzipQ,    \* the archives UnzipManager has still to extract
  printed,   \* the last message run() printed, or "none"
  \* the Anonymizer object and the worker pool of anonimize_all_patients
  toProcess, \* to_process
  tasks,     \* one task_wrapper(patient) per element of to_process
  lock,      \* 0, or the task holding threading.Lock()
  successes, \* self.successes
  failures,  \* self.failures
  summary,   \* the counts of the last summary line, or <<>>
  nextUid,   \* number of identities generated so far
  \* the environment
  faults,    \* number of transient I/O faults injected so far
  \* history
  afg,       \* what the running anonimize_folders call did so far
  lastAF,    \* the same for the last call that ended
  touched,   \* the directory was changed from outside since that call ended
  assignLog, \* every index assignment made, in order
  batchLog   \* folders handed to the pool by the calls that ended

recVars == <<rec0, rec, rstage>>
fsVars == <<zips, dir>>
mainVars == <<pc, entry, calls, raised, startIndex, af>>
runVars == <<unzipQ, printed>>
poolVars == <<toProcess, tasks, lock, successes, failures, summary, nextUid>>
histVars == <<afg, lastAF, touched, assignLog, batchLog>>
vars == <<rec0, rec, rstage, zips, dir, pc, entry, calls, raised, startIndex, af,
          unzipQ, printed,
          toProcess, tasks, lock, successes, failures, summary, nextUid,
          faults, afg, lastAF, touched, assignLog, batchLog>>

-----------------------------------------------------------------------------
(* Characters and strings *)

UpperChars == <<"A","B","C","D","E","F","G","H","I","J","K","L","M",
                "N","O","P","Q","R","S","T","U","V","W","X","Y","Z">>
LowerChars == <<"a","b","c","d","e","f","g","h","i","j","k","l","m",
                "n","o","p","q","r","s","t","u","v","w","x","y","z">>
DigitChars == <<"0","1","2","3","4","5","6","7","8","9">>

\* str.lower() on one character
LowerChar(c) ==
  IF \E i \in 1..Len(UpperChars) : UpperChars[i] = c
  THEN LowerChars[CHOOSE i \in 1..Len(UpperChars) : UpperChars[i] = c]
  ELSE c

\* str.lower()
Lower(s) == [i \in 1..Len(s) |-> LowerChar(s[i])]

\* Python's "sub in s" on strings
Contains(sub, s) ==
  \E i \in 1..(Len(s) - Len(sub) + 1) : SubSeq(s, i, i + Len(sub) - 1) = sub

\* str.startswith / str.endswith
StartsWith(s, p) == Len(s) >= Len(p) /\ SubSeq(s, 1, Len(p)) = p
EndsWith(s, p) == Len(s) >= Len(p) /\ SubSeq(s, Len(s) - Len(p) + 1, Len(s)) = p

\* str.upper() on one character, str.upper()
UpperChar(c) ==
  IF \E i \in 1..Len(LowerChars) : LowerChars[i] = c
  THEN UpperChars[CHOOSE i \in 1..Len(LowerChars) : LowerChars[i] = c]
  ELSE c
Upper(s) == [i \in 1..Len(s) |-> UpperChar(s[i])]

\* str.strip(): leading and trailing blanks removed
RECURSIVE Strip(_)
Strip(s) ==
  IF s = <<>> THEN s
  ELSE IF Head(s) = " " THEN Strip(Tail(s))
  ELSE IF s[Len(s)] = " " THEN Strip(SubSeq(s, 1, Len(s) - 1))
  ELSE s

IsDigit(c) == \E i \in 1..Len(DigitChars) : DigitChars[i] = c
DigitValue(c) == (CHOOSE i \in 1..Len(DigitChars) : DigitChars[i] = c) - 1

\* the characters of the model in code-point order ("zh" and "em" stand for
\* the Cyrillic letters U+0436 and U+043C), for the comparison sorted() makes
CodeOrder ==
  <<" ", ",", ".">> \o DigitChars \o <<";">> \o UpperChars \o <<"_">>
     \o LowerChars \o <<"zh", "em">>
CharCode(c) == CHOOSE i \in 1..Len(CodeOrder) : CodeOrder[i] = c

\* str < str
StrLess(a, b) ==
  \/ Len(a) < Len(b) /\ SubSeq(b, 1, Len(a)) = a
  \/ \E i \in 1..Len(a) :
        /\ i <= Len(b)
        /\ SubSeq(a, 1, i - 1) = SubSeq(b, 1, i - 1)
        /\ CharCode(a[i]) < CharCode(b[i])

\* sorted() of a set of distinct strings
RECURSIVE Sorted(_)
Sorted(S) ==
  IF S = {} THEN <<>>
  ELSE LET m == CHOOSE x \in S : \A y \in S \ {x} : StrLess(x, y)
       IN <<m>> \o Sorted(S \ {m})

\* str.split(sep)
RECURSIVE Split(_, _)
Split(s, sep) ==
  IF Contains(sep, s)
  THEN LET i == CHOOSE j \in 1..(Len(s) - Len(sep) + 1) :
                  /\ SubSeq(s, j, j + Len(sep) - 1) = sep
                  /\ \A k \in 1..(j - 1) : SubSeq(s, k, k + Len(sep) - 1) # sep
       IN <<SubSeq(s, 1, i - 1)>> \o Split(SubSeq(s, i + Len(sep), Len(s)), sep)
  ELSE <<s>>

\* int(s) succeeds (the model's strings hold no sign and no blank digits)
IsInt(s) == s # <<>> /\ \A i \in 1..Len(s) : IsDigit(s[i])
RECURSIVE ParseInt(_)
ParseInt(s) ==
  IF s = <<>> THEN 0
  ELSE 10 * ParseInt(SubSeq(s, 1, Len(s) - 1)) + DigitValue(s[Len(s)])

\* str(n) for n >= 0
RECURSIVE Str(_)
Str(n) ==
  IF n < 10 THEN <<DigitChars[n + 1]>>
  ELSE Str(n \div 10) \o <<DigitChars[(n % 10) + 1]>>

\* seq[k:] of Python for k >= 0
SliceFrom(seq, k) == SubSeq(seq, k + 1, Len(seq))

-----------------------------------------------------------------------------
(* utils_config.py *)

PATTERNS_FOR_DICOM_ANONIMIZER ==
  { <<"a","c","q","u","i","s","i","t","i","o","n">>,
    <<"b","i","t","s">>,
    <<"d","a","t","e">>,
    <<"t","i","m","e">>,
    <<"m","a","n","u","f","a","c","t","u","r","e","r">>,
    <<"p","a","t","i","e","n","t">>,
    <<"n","a","m","e">>,
    <<"s","t","u","d","y">> }

tok_bits == <<"b","i","t","s">>
tok_pixel == <<"p","i","x","e","l">>
tok_patient == <<"p","a","t","i","e","n","t">>
tok_image == <<"i","m","a","g","e">>
tok_slice == <<"s","l","i","c","e">>
tok_study == <<"s","t","u","d","y">>
tok_uid == <<"u","i","d">>
tok_id == <<"i","d">>

CRITICAL_PATTERNS ==
  { <<tok_bits, <<"a","l","l","o","c","a","t","e","d">>>>,
    <<tok_bits, <<"s","t","o","r","e","d">>>>,
    <<tok_bits, <<"h","i","g","h">>>>,
    <<tok_pixel, <<"r","e","p","r","e","s","e","n","t","a","t","i","o","n">>>>,
    <<tok_pixel, <<"s","p","a","c","i","n","g">>>>,
    <<tok_patient, <<"o","r","i","e","n","t","a","t","i","o","n">>>>,
    <<tok_patient, <<"p","o","s","i","t","i","o","n">>>>,
    <<tok_image, <<"o","r","i","e","n","t","a","t","i","o","n">>>>,
    <<tok_image, <<"p","o","s","i","t","i","o","n">>>>,
    <<tok_slice, <<"t","h","i","c","k","n","e","s","s">>>>,
    <<tok_slice, <<"b","e","t","w","e","e","n">>>>,
    <<tok_slice, <<"s","p","a","c","i","n","g">>>> }

-----------------------------------------------------------------------------
(* Attribute keywords of a record (what dir(dicom_data) lists for the      *)
(* elements present) and their spelling.  PatientPositionID is not a       *)
(* keyword of the DICOM dictionary: it stands for any name holding a       *)
(* critical pair together with "patient" and "id".                         *)

Keyword ==
  [ StudyInstanceUID |-> <<"S","t","u","d","y","I","n","s","t","a","n","c","e","U","I","D">>,
    StudyID |-> <<"S","t","u","d","y","I","D">>,
    StudyDate |-> <<"S","t","u","d","y","D","a","t","e">>,
    PatientID |-> <<"P","a","t","i","e","n","t","I","D">>,
    PatientName |-> <<"P","a","t","i","e","n","t","N","a","m","e">>,
    PatientSex |-> <<"P","a","t","i","e","n","t","S","e","x">>,
    PatientAge |-> <<"P","a","t","i","e","n","t","A","g","e">>,
    PatientPosition |-> <<"P","a","t","i","e","n","t","P","o","s","i","t","i","o","n">>,
    PatientPositionID |-> <<"P","a","t","i","e","n","t","P","o","s","i","t","i","o","n","I","D">>,
    ImageOrientationPatient |-> <<"I","m","a","g","e","O","r","i","e","n","t","a","t","i","o","n","P","a","t","i","e","n","t">>,
    BitsAllocated |-> <<"B","i","t","s","A","l","l","o","c","a","t","e","d">>,
    HighBit |-> <<"H","i","g","h","B","i","t">>,
    PixelSpacing |-> <<"P","i","x","e","l","S","p","a","c","i","n","g">>,
    SliceThickness |-> <<"S","l","i","c","e","T","h","i","c","k","n","e","s","s">>,
    SpacingBetweenSlices |-> <<"S","p","a","c","i","n","g","B","e","t","w","e","e","n","S","l","i","c","e","s">>,
    SOPInstanceUID |-> <<"S","O","P","I","n","s","t","a","n","c","e","U","I","D">> ]

AttrNames == DOMAIN Keyword

-----------------------------------------------------------------------------
(* Attribute values: <<kind, payload>>.                                    *)

Text(chars) == <<"text", chars>>          \* a string value
Num(xs) == <<"num", xs>>                  \* a numeric (multi-)value, x100
Uid(n) == <<"uid", <<n>>>>                \* the n-th result of generate_uid()
AnonId(n) == <<"anon", <<n>>>>            \* the n-th f"anon_{uuid4().hex[:8]}"
EmptyStr == Text(<<>>)
OrigText == Text(<<"x">>)

\* Python truthiness of a value ("not dicom_data.X")
Truthy(v) == v[2] # <<>>

-----------------------------------------------------------------------------
(* Records: functions from the keywords present to their values.           *)

EmptyRec == [a \in {} |-> EmptyStr]
Put(r, k, v) == [a \in DOMAIN r \cup {k} |-> IF a = k THEN v ELSE r[a]]
HasAttr(r, k) == k \in DOMAIN r

\* Anonymizer.is_critical_patterns (called with the lower-cased name)
is_critical_patterns_bitsOnly(attr_name) ==
  \E kv \in CRITICAL_PATTERNS :
     kv[1] = tok_bits /\ Contains(kv[1], attr_name) /\ Contains(kv[2], attr_name)
is_critical_patterns(attr_name) ==
  \E kv \in CRITICAL_PATTERNS :
     Contains(kv[1], attr_name) /\ Contains(kv[2], attr_name)

\* attr.lower() / x.lower() of every keyword
KeywordLower == [a \in AttrNames |-> Lower(Keyword[a])]

\* line 135: any(p in x.lower() for p in PATTERNS_FOR_DICOM_ANONYMIZER)
SelectedNames ==
  { x \in AttrNames :
      \E p \in PATTERNS_FOR_DICOM_ANONIMIZER : Contains(p, KeywordLower[x]) }
\* line 138: "study" in attr.lower() and "uid" in attr.lower()
StudyUidNames ==
  { x \in AttrNames :
      Contains(tok_study, KeywordLower[x]) /\ Contains(tok_uid, KeywordLower[x]) }
\* line 140: "patient" in attr.lower() and "id" in attr.lower()
PatientIdNames ==
  { x \in AttrNames :
      Contains(tok_patient, KeywordLower[x]) /\ Contains(tok_id, KeywordLower[x]) }
\* line 142: self.is_critical_patterns(attr.lower())
CriticalNames == { x \in AttrNames : is_critical_patterns(KeywordLower[x]) }

\* line 135: the attributes anonymize_dicom looks at
SelectedAttrs_all(r) == DOMAIN r
SelectedAttrs(r) == DOMAIN r \cap SelectedNames

\* lines 138-145: the value anonymize_dicom gives to one selected attribute
AnonymizedValue_keepRest(attr, old, global_uid, anon_patient_id) ==
  IF attr \in StudyUidNames THEN global_uid
  ELSE IF attr \in PatientIdNames THEN anon_patient_id
  ELSE old
AnonymizedValue(attr, old, global_uid, anon_patient_id) ==
  IF attr \in StudyUidNames THEN global_uid
  ELSE IF attr \in PatientIdNames THEN anon_patient_id
  ELSE IF attr \in CriticalNames THEN old
  ELSE EmptyStr

\* Anonymizer.anonymize_dicom
anonymize_dicom(r, global_uid, anon_patient_id) ==
  [ x \in DOMAIN r |->
      IF x \in SelectedAttrs(r)
      THEN AnonymizedValue(x, r[x], global_uid, anon_patient_id)
      ELSE r[x] ]

DefaultOrientation == Num(<<100, 0, 0, 0, 100, 0>>)
DefaultPixelSpacing == Num(<<40, 40>>)
DefaultSliceThickness == Num(<<32>>)
ZeroSpacing == Num(<<0, 0>>)

\* Anonymizer.repair_dicom, the three patches in the order of the code
RepairOrientation_always(r) == Put(r, "ImageOrientationPatient", DefaultOrientation)
RepairOrientation(r) ==
  IF ~HasAttr(r, "ImageOrientationPatient") \/ ~Truthy(r["ImageOrientationPatient"])
  THEN Put(r, "ImageOrientationPatient", DefaultOrientation)
  ELSE r

RepairPixelSpacing_ifPatched(r) ==
  IF ~HasAttr(r, "PixelSpacing") \/ r["PixelSpacing"] = ZeroSpacing
     \/ r["ImageOrientationPatient"] = DefaultOrientation
  THEN Put(r, "PixelSpacing", DefaultPixelSpacing)
  ELSE r
RepairPixelSpacing(r) ==
  IF ~HasAttr(r, "PixelSpacing") \/ r["PixelSpacing"] = ZeroSpacing
  THEN Put(r, "PixelSpacing", DefaultPixelSpacing)
  ELSE r

RepairSliceSpacing_noThickness(r) ==
  IF ~HasAttr(r, "SpacingBetweenSlices")
  THEN Put(r, "SpacingBetweenSlices", DefaultSliceThickness)
  ELSE r
RepairSliceSpacing(r) ==
  IF ~HasAttr(r, "SpacingBetweenSlices")
  THEN Put(r, "SpacingBetweenSlices",
           IF HasAttr(r, "SliceThickness") THEN r["SliceThickness"]
           ELSE DefaultSliceThickness)
  ELSE r

repair_dicom(r) == RepairSliceSpacing(RepairPixelSpacing(RepairOrientation(r)))

\* DicomRepairProcessor.fix_dicom_geometry (dicom_repaire.py): the dataset
\* after the three patches, and whether it is written back (changed)
FixOrientation(ds) ==
  IF ~HasAttr(ds, "ImageOrientationPatient") \/ ~Truthy(ds["ImageOrientationPatient"])
  THEN Put(ds, "ImageOrientationPatient", DefaultOrientation)
  ELSE ds
FixPixelSpacing(ds) ==
  IF ~HasAttr(ds, "PixelSpacing") \/ ds["PixelSpacing"] = ZeroSpacing
  THEN Put(ds, "PixelSpacing", DefaultPixelSpacing)
  ELSE ds
FixSliceSpacing(ds) ==
  IF ~HasAttr(ds, "SpacingBetweenSlices")
  THEN Put(ds, "SpacingBetweenSlices",
           IF HasAttr(ds, "SliceThickness") THEN ds["SliceThickness"]
           ELSE DefaultSliceThickness)
  ELSE ds
fix_dicom_geometry(ds) ==
  LET changed == \/ ~HasAttr(ds, "ImageOrientationPatient")
                 \/ ~Truthy(ds["ImageOrientationPatient"])
                 \/ ~HasAttr(ds, "PixelSpacing") \/ ds["PixelSpacing"] = ZeroSpacing
                 \/ ~HasAttr(ds, "SpacingBetweenSlices")
  IN [ds |-> FixSliceSpacing(FixPixelSpacing(FixOrientation(ds))), changed |-> changed]

-----------------------------------------------------------------------------
(* Files, folders and the working directory UNZIPED_PATH.                  *)
(* A file is [name, data, kind]: data is the record it holds; kind says    *)
(* how the file behaves under I/O: "good", "corrupt" (pydicom.dcmread      *)
(* raises), "readonly" (save_as raises and leaves the file as it was) or   *)
(* "stuck" (shutil.move raises).  A folder is the sequence of its files in *)
(* listing order; the directory maps folder names to folders.              *)

File(n, d, k) == [name |-> n, data |-> d, kind |-> k]

EmptyDir == [n \in {} |-> <<>>]
DirPut(d, n, files) == [m \in DOMAIN d \cup {n} |-> IF m = n THEN files ELSE d[m]]
DirDel(d, n) == [m \in DOMAIN d \ {n} |-> d[m]]

\* the orders os.listdir may return the names of S in
Listings(S) ==
  { q \in [1..Cardinality(S) -> S] : \A i, j \in DOMAIN q : q[i] = q[j] => i = j }

SeqToSet(q) == { q[i] : i \in DOMAIN q }
MaxOf(S) == CHOOSE x \in S : \A y \in S : y <= x

PatientPrefix == <<"p","a","t","i","e","n","t","_","_">>
DcmExt == <<".","d","c","m">>
ZipExt == <<".","z","i","p">>
NO_SEX == <<"N","O","_","S","E","X">>
NO_AGE == <<"N","O","_","A","G","E">>
Underscore == <<"_">>

\* f.startswith("patient__")
IsPatientFolder(f) == StartsWith(f, PatientPrefix)

\* lines 204-208: int(f.split('__')[1].split('_')[0]) under the bare except;
\* the set holds the index, or nothing when the conversion raises
FolderIndex(f) ==
  LET parts == Split(f, <<"_","_">>) IN
  IF Len(parts) < 2 THEN {}
  ELSE LET first == Split(parts[2], Underscore)[1] IN
       IF IsInt(first) THEN {ParseInt(first)} ELSE {}

\* lines 200-208: used_indexes over the canonical folders of the listing
UsedIndexes(d) == UNION { FolderIndex(f) : f \in {g \in DOMAIN d : IsPatientFolder(g)} }

\* line 235: f"patient__{next_index}_{sex}_{age}"
CanonicalName(index, sex, age) ==
  PatientPrefix \o Str(index) \o Underscore \o sex \o Underscore \o age

\* lines 40-46 of get_last_patient_index: int(folder.split('_')[1]) under
\* except (IndexError, ValueError)
LastIndexOf(folder) ==
  LET parts == Split(folder, Underscore) IN
  IF Len(parts) < 2 THEN {}
  ELSE IF IsInt(parts[2]) THEN {ParseInt(parts[2])} ELSE {}

\* AnonymizerInterface.get_last_patient_index
get_last_patient_index(d) ==
  LET indexes == UNION { LastIndexOf(f) : f \in {g \in DOMAIN d : IsPatientFolder(g)} }
  IN IF indexes # {} THEN MaxOf(indexes) ELSE 0

\* getattr(dcm, attr, "").strip().upper() or default
TagFromRecord(r, attr, default) ==
  LET raw == IF HasAttr(r, attr) THEN r[attr][2] ELSE <<>>
      v == Upper(Strip(raw))
  IN IF v # <<>> THEN v ELSE default

\* Anonymizer.get_sex_and_age_from_dicom: <<sex, age>> of the first file
\* named *.dcm (any case) that can be read; <<>> is Python's None, returned
\* when the walk ends without such a file
get_sex_and_age_from_dicom(files) ==
  LET readable == { i \in 1..Len(files) :
                      /\ EndsWith(Lower(files[i].name), DcmExt)
                      /\ files[i].kind # "corrupt" }
  IN IF readable = {} THEN <<>>
     ELSE LET i == CHOOSE j \in readable : \A k \in readable : j <= k
          IN << TagFromRecord(files[i].data, "PatientSex", NO_SEX),
                TagFromRecord(files[i].data, "PatientAge", NO_AGE) >>

\* \w of re for the characters of the model
IsWordChar(c) == c \notin {" ", ",", ".", ";"}

\* re.search(r'\b(a|b)\b', s) or re.search(r'(a|b)(?=\d|[,;])', s)
SexMarker_wordOnly(s, letters) ==
  \E i \in 1..Len(s) :
     /\ s[i] \in letters
     /\ (i = 1 \/ ~IsWordChar(s[i - 1]))
     /\ (i = Len(s) \/ ~IsWordChar(s[i + 1]))
SexMarker(s, letters) ==
  \/ \E i \in 1..Len(s) :
        /\ s[i] \in letters
        /\ (i = 1 \/ ~IsWordChar(s[i - 1]))
        /\ (i = Len(s) \/ ~IsWordChar(s[i + 1]))
  \/ \E i \in 1..(Len(s) - 1) :
        /\ s[i] \in letters
        /\ (IsDigit(s[i + 1]) \/ s[i + 1] \in {",", ";"})

\* Anonymizer.guess_sex_and_age_from_name
guess_sex_and_age_from_name(name) ==
  LET low == Lower(name)
      hits == { i \in 1..(Len(low) - 1) : IsDigit(low[i]) /\ IsDigit(low[i + 1]) }
      age == IF hits = {} THEN NO_AGE
             ELSE LET i == CHOOSE j \in hits : \A k \in hits : j <= k
                  IN SubSeq(low, i, i + 1)
      sex == IF SexMarker(low, {"zh", "f"}) THEN <<"F">>
             ELSE IF SexMarker(low, {"em", "m"}) THEN <<"M">>
             ELSE NO_SEX
  IN <<sex, age>>

\* lines 217-229: the tags of a raw folder whose records gave <<sex, age>>
FolderTags(folder, fromDicom) ==
  LET sex0 == fromDicom[1]
      age0 == fromDicom[2]
      guessed == guess_sex_and_age_from_name(folder)
      useGuess == sex0 = <<>> \/ sex0 = NO_SEX
      sex1 == IF useGuess /\ sex0 = NO_SEX /\ guessed[1] # NO_SEX THEN guessed[1] ELSE sex0
      age1 == IF useGuess /\ age0 = NO_AGE /\ guessed[2] # NO_AGE THEN guessed[2] ELSE age0
  IN << IF sex1 = <<>> THEN NO_SEX ELSE sex1,
        IF age1 = <<>> THEN NO_AGE ELSE age1 >>

\* lines 231-232: while next_index in used_indexes: next_index += 1
RECURSIVE FirstUnused(_, _)
FirstUnused(next_index, used_indexes) ==
  IF next_index \in used_indexes THEN FirstUnused(next_index + 1, used_indexes)
  ELSE next_index

-----------------------------------------------------------------------------
(* Initial values *)

NoAF == [todo |-> <<>>, used |-> {}, next |-> 0, cur |-> <<>>, dst |-> <<>>, items |-> <<>>]
NoAFG == [ops |-> 0, moveFailed |-> FALSE, rmFailed |-> FALSE, startIdx |-> {},
          assigned |-> {}, namesBefore |-> {}, contentBefore |-> <<>>,
          sameTree |-> FALSE,
          prevClean |-> FALSE, prevRmFailed |-> FALSE, prevOps |-> 0]
NoLastAF == [ran |-> FALSE, completed |-> FALSE, g |-> NoAFG, namesAfter |-> {}]

\* the state of a fresh process with a fresh Anonymizer (lines 74-76)
IdleMain ==
  /\ pc = "idle" /\ entry = "none" /\ calls = 0 /\ raised = "none"
  /\ startIndex = 1 /\ af = NoAF
  /\ unzipQ = <<>> /\ printed = "none"
IdlePool ==
  /\ toProcess = <<>> /\ tasks = <<>> /\ lock = 0
  /\ successes = <<>> /\ failures = <<>> /\ summary = <<>> /\ nextUid = 0
IdleHist ==
  /\ afg = NoAFG /\ lastAF = NoLastAF /\ touched = FALSE
  /\ assignLog = <<>> /\ batchLog = <<>>
IdleRec == rec0 = EmptyRec /\ rec = EmptyRec /\ rstage = "none"
IdleRest ==
  /\ zips = {} /\ dir = EmptyDir /\ faults = 0
  /\ IdleMain /\ IdlePool /\ IdleHist

-----------------------------------------------------------------------------
(* The records the record-level specification starts from: every choice of *)
(* at most MaxAttrs keywords, geometry attributes in each of their cases.  *)

MaxAttrs == 3

ValuesOf(a) ==
  CASE a = "ImageOrientationPatient" -> {Num(<<>>), Num(<<0, 100, 0, 0, 0, 100>>)}
    [] a = "PixelSpacing" -> {ZeroSpacing, Num(<<30, 30>>), Num(<<0, 30>>)}
    [] a = "SliceThickness" -> {Num(<<100>>)}
    [] a = "SpacingBetweenSlices" -> {Num(<<150>>)}
    [] OTHER -> {OrigText}

RECURSIVE RecordsOver(_)
RecordsOver(S) ==
  IF S = {} THEN {EmptyRec}
  ELSE LET a == CHOOSE x \in S : TRUE IN
       { Put(r, a, v) : v \in ValuesOf(a), r \in RecordsOver(S \ {a}) }

SampleRecords ==
  UNION { RecordsOver(S) : S \in {T \in SUBSET AttrNames : Cardinality(T) <= MaxAttrs} }

\* the Identity used by the record-level specification
SampleUid == Uid(1)
SampleAnonId == AnonId(1)

RecInit ==
  /\ rec0 \in SampleRecords
  /\ rec = rec0
  /\ rstage = "read"
  /\ IdleRest

\* anonimize_patient line 186
RecRepair ==
  /\ rstage = "read"
  /\ rec' = repair_dicom(rec)
  /\ rstage' = "repaired"
  /\ UNCHANGED <<rec0, runVars, fsVars, mainVars, poolVars, faults, histVars>>

\* anonimize_patient line 187
RecAnonymize ==
  /\ rstage = "repaired"
  /\ rec' = anonymize_dicom(rec, SampleUid, SampleAnonId)
  /\ rstage' = "anonymized"
  /\ UNCHANGED <<rec0, runVars, fsVars, mainVars, poolVars, faults, histVars>>

\* fix_dicom_geometry on the record as read: lines 40-62 of dicom_repaire.py,
\* rec being the dataset the file holds afterwards
RecFix ==
  /\ rstage = "read"
  /\ LET res == fix_dicom_geometry(rec)
     IN rec' = IF res.changed THEN res.ds ELSE rec
  /\ rstage' = "fixed"
  /\ UNCHANGED <<rec0, runVars, fsVars, mainVars, poolVars, faults, histVars>>

RecNext == RecRepair \/ RecAnonymize \/ RecFix

SpecRecord == RecInit /\ [][RecNext]_vars

-----------------------------------------------------------------------------
(* Anonymizer.anonimize_folders, one action per step of its loops.         *)

MaxCalls == 3      \* invocations made by the caller in one behaviour
MaxFolders == 3    \* folders the working directory holds at most
MaxFaults == 1     \* transient I/O faults the environment injects at most

\* control returns from a method called by run() / anonimize_patients()
\* (lines 50-51 and 67-70) or invoked directly
AfterFolders == IF entry = "run" THEN "aap_start" ELSE "idle"

\* line 198 and line 148: the folders named patient__*
CanonicalFolders(d) == { f \in DOMAIN d : IsPatientFolder(f) }

\* the entries of the canonical folders, by folder name
CanonicalContent(d) == [f \in CanonicalFolders(d) |-> d[f]]

\* line 197: the folders still to classify
RawFolders_unfiltered(d) == DOMAIN d
RawFolders(d) == { f \in DOMAIN d : ~IsPatientFolder(f) }

\* line 210
NextIndexAtStart_len(used_indexes) == Cardinality(used_indexes) + 1
NextIndexAtStart_one(used_indexes) == 1
NextIndexAtStart(used_indexes) ==
  IF used_indexes # {} THEN MaxOf(used_indexes) + 1 ELSE 1

\* lines 196-213
AFStart ==
  /\ pc = "af_start"
  /\ \E todo \in Listings(RawFolders(dir)) :
        af' = [NoAF EXCEPT !.todo = todo,
                            !.used = UsedIndexes(dir),
                            !.next = NextIndexAtStart(UsedIndexes(dir))]
  /\ afg' = [NoAFG EXCEPT !.startIdx = UsedIndexes(dir),
                           !.namesBefore = DOMAIN dir,
                           !.contentBefore = CanonicalContent(dir),
                           !.sameTree = lastAF.ran /\ ~touched,
                           !.prevClean = lastAF.completed /\ ~lastAF.g.moveFailed,
                           !.prevRmFailed = lastAF.g.rmFailed,
                           !.prevOps = lastAF.g.ops]
  /\ pc' = "af_loop"
  /\ UNCHANGED <<recVars, runVars, fsVars, entry, calls, raised, startIndex, poolVars, faults,
                 lastAF, touched, assignLog, batchLog>>

\* lines 215-242 for the next raw folder: tags, index, destination directory
AFFolder ==
  /\ pc = "af_loop" /\ af.todo # <<>>
  /\ LET folder == Head(af.todo)
         fromDicom == get_sex_and_age_from_dicom(dir[folder])
     IN IF fromDicom = <<>>
        THEN \* line 217: "sex, age = None" raises TypeError, which nothing catches
             /\ raised' = "TypeError"
             /\ pc' = "idle"
             /\ af' = NoAF
             /\ lastAF' = [ran |-> TRUE, completed |-> FALSE, g |-> afg,
                           namesAfter |-> DOMAIN dir]
             /\ touched' = FALSE
             /\ afg' = NoAFG
             /\ UNCHANGED <<dir, assignLog>>
        ELSE LET tags == FolderTags(folder, fromDicom)
                 idx == FirstUnused(af.next, af.used)
                 new == CanonicalName(idx, tags[1], tags[2])
             IN /\ af' = [af EXCEPT !.used = af.used \cup {idx},
                                    !.next = idx,
                                    !.cur = folder,
                                    !.dst = new,
                                    !.items = [i \in 1..Len(dir[folder]) |->
                                                 dir[folder][i].name]]
                /\ dir' = IF new \in DOMAIN dir THEN dir ELSE DirPut(dir, new, <<>>)
                /\ afg' = [afg EXCEPT !.assigned = afg.assigned \cup {idx},
                                      !.ops = IF new \in DOMAIN dir THEN afg.ops
                                              ELSE afg.ops + 1]
                /\ assignLog' = Append(assignLog,
                                   [idx |-> idx, raw |-> folder, new |-> new,
                                    fromDicom |-> fromDicom,
                                    startMax |-> IF afg.startIdx = {} THEN 0
                                                 ELSE MaxOf(afg.startIdx)])
                /\ pc' = "af_move"
                /\ UNCHANGED <<raised, lastAF, touched>>
  /\ UNCHANGED <<recVars, runVars, zips, entry, calls, startIndex, poolVars, faults, batchLog>>

\* the file named n of a folder, and a folder with a file put in or taken out
FileNamed(files, n) == files[CHOOSE i \in 1..Len(files) : files[i].name = n]
WithoutFile(files, n) == SelectSeq(files, LAMBDA f : f.name # n)
WithFile(files, f) == Append(WithoutFile(files, f.name), f)

\* lines 244-251: shutil.move of one entry, a failure being logged
AFMove ==
  /\ pc = "af_move" /\ af.items # <<>>
  /\ LET item == FileNamed(dir[af.cur], Head(af.items))
     IN IF item.kind = "stuck"
        THEN /\ afg' = [afg EXCEPT !.ops = afg.ops + 1, !.moveFailed = TRUE]
             /\ UNCHANGED dir
        ELSE /\ dir' = [dir EXCEPT ![af.cur] = WithoutFile(dir[af.cur], item.name),
                                   ![af.dst] = WithFile(dir[af.dst], item)]
             /\ afg' = [afg EXCEPT !.ops = afg.ops + 1]
  /\ af' = [af EXCEPT !.items = Tail(af.items)]
  /\ UNCHANGED <<recVars, runVars, zips, pc, entry, calls, raised, startIndex, poolVars, faults,
                 lastAF, touched, assignLog, batchLog>>

\* lines 253-259: os.rmdir of the raw folder, a failure being logged
AFRmdirOk ==
  /\ pc = "af_move" /\ af.items = <<>>
  /\ dir[af.cur] = <<>>
  /\ dir' = DirDel(dir, af.cur)
  /\ afg' = [afg EXCEPT !.ops = afg.ops + 1]
  /\ af' = [af EXCEPT !.todo = Tail(af.todo), !.next = af.next + 1,
                      !.cur = <<>>, !.dst = <<>>]
  /\ pc' = "af_loop"
  /\ UNCHANGED <<recVars, runVars, zips, entry, calls, raised, startIndex, poolVars, faults,
                 lastAF, touched, assignLog, batchLog>>

\* os.rmdir raises: the folder is not empty, or the system refuses
AFRmdirFails ==
  /\ pc = "af_move" /\ af.items = <<>>
  /\ \/ dir[af.cur] # <<>> /\ UNCHANGED faults
     \/ dir[af.cur] = <<>> /\ faults < MaxFaults /\ faults' = faults + 1
  /\ afg' = [afg EXCEPT !.ops = afg.ops + 1, !.rmFailed = TRUE]
  /\ af' = [af EXCEPT !.todo = Tail(af.todo), !.next = af.next + 1,
                      !.cur = <<>>, !.dst = <<>>]
  /\ pc' = "af_loop"
  /\ UNCHANGED <<recVars, runVars, fsVars, entry, calls, raised, startIndex, poolVars,
                 lastAF, touched, assignLog, batchLog>>

\* lines 261-262: the loop is over, anonimize_folders returns
AFDone ==
  /\ pc = "af_loop" /\ af.todo = <<>>
  /\ pc' = AfterFolders
  /\ af' = NoAF
  /\ lastAF' = [ran |-> TRUE, completed |-> TRUE, g |-> afg, namesAfter |-> DOMAIN dir]
  /\ afg' = NoAFG
  /\ touched' = FALSE
  /\ UNCHANGED <<recVars, runVars, fsVars, entry, calls, raised, startIndex, poolVars, faults,
                 assignLog, batchLog>>

\* the caller invokes Anonymizer.anonimize_folders()
CallAnonimizeFolders ==
  /\ pc = "idle" /\ calls < MaxCalls
  /\ pc' = "af_start" /\ entry' = "folders" /\ calls' = calls + 1 /\ raised' = "none"
  /\ UNCHANGED <<recVars, runVars, fsVars, startIndex, af, poolVars, faults, histVars>>

-----------------------------------------------------------------------------
(* The environment of anonimize_folders: raw folders appear in the working *)
(* directory and canonical folders are taken away between two calls.       *)

Dcm1 == <<"1",".","d","c","m">>
Dcm2 == <<"2",".","d","c","m">>
RecNoTags == Put(EmptyRec, "PatientName", OrigText)
RecTags == Put(Put(RecNoTags, "PatientSex", Text(<<"f">>)),
               "PatientAge", Text(<<"0","4","5","Y">>))

RecAgeOnly == Put(RecNoTags, "PatientAge", Text(<<"0","3","0","Y">>))

RawPool ==
  { [name |-> <<"I","v","a","n","o","v","a","_","zh","4","5">>,
     files |-> <<File(Dcm1, RecNoTags, "good")>>],
    [name |-> <<"m","3","0">>,
     files |-> <<File(Dcm1, RecAgeOnly, "good"), File(Dcm2, RecTags, "stuck")>>],
    [name |-> <<"x">>, files |-> <<>>] }

AddRaw ==
  /\ pc = "idle" /\ calls < MaxCalls
  /\ Cardinality(DOMAIN dir) < MaxFolders
  /\ \E t \in RawPool :
        /\ t.name \notin DOMAIN dir
        /\ dir' = DirPut(dir, t.name, t.files)
  /\ touched' = TRUE
  /\ UNCHANGED <<recVars, runVars, zips, mainVars, poolVars, faults, afg, lastAF, assignLog,
                 batchLog>>

RemoveCanonical ==
  /\ pc = "idle" /\ calls < MaxCalls
  /\ \E f \in DOMAIN dir :
        /\ IsPatientFolder(f)
        /\ dir' = DirDel(dir, f)
  /\ touched' = TRUE
  /\ UNCHANGED <<recVars, runVars, zips, mainVars, poolVars, faults, afg, lastAF, assignLog,
                 batchLog>>

\* a working directory as earlier runs may have left it
OldPatient == CanonicalName(2, <<"M">>, <<"3","0">>)
InitialDirs == { EmptyDir, DirPut(EmptyDir, OldPatient, <<File(Dcm1, RecTags, "good")>>) }

FoldersInit ==
  /\ IdleRec /\ IdleMain /\ IdlePool /\ IdleHist
  /\ zips = {} /\ faults = 0
  /\ dir \in InitialDirs

FoldersNext ==
  \/ CallAnonimizeFolders \/ AFStart \/ AFFolder \/ AFMove
  \/ AFRmdirOk \/ AFRmdirFails \/ AFDone
  \/ AddRaw \/ RemoveCanonical

SpecFolders == FoldersInit /\ [][FoldersNext]_vars

\* The process is killed while anonimize_folders is in its loop (lines
\* 215-259): what is on disk stays, the locals are lost.
AFCrash ==
  /\ pc \in {"af_loop", "af_move"}
  /\ pc' = "idle" /\ raised' = "killed"
  /\ af' = NoAF
  /\ lastAF' = [ran |-> TRUE, completed |-> FALSE, g |-> afg, namesAfter |-> DOMAIN dir]
  /\ afg' = NoAFG
  /\ touched' = FALSE
  /\ UNCHANGED <<recVars, runVars, fsVars, entry, calls, startIndex, poolVars, faults,
                 assignLog, batchLog>>

\* anonimize_folders called again and again on a directory of raw folders,
\* each call running to its end or being killed
CrashInit ==
  /\ IdleRec /\ IdleMain /\ IdlePool /\ IdleHist
  /\ zips = {} /\ faults = 0
  /\ dir \in { DirPut(EmptyDir, <<"I","v","a","n","o","v","a","_","zh","4","5">>,
                      <<File(Dcm1, RecNoTags, "good"), File(Dcm2, RecNoTags, "good")>>),
                DirPut(DirPut(EmptyDir, <<"I","v","a","n","o","v","a","_","zh","4","5">>,
                              <<File(Dcm1, RecNoTags, "good"), File(Dcm2, RecNoTags, "good")>>),
                       <<"m","3","0">>,
                       <<File(Dcm1, RecAgeOnly, "good"), File(Dcm2, RecTags, "stuck")>>) }

CrashNext ==
  \/ CallAnonimizeFolders \/ AFStart \/ AFFolder \/ AFMove
  \/ AFRmdirOk \/ AFRmdirFails \/ AFDone
  \/ AFCrash

SpecCrash == CrashInit /\ [][CrashNext]_vars

-----------------------------------------------------------------------------
(* Anonymizer.anonimize_all_patients: the main thread submits one          *)
(* task_wrapper(patient) per folder to a ThreadPoolExecutor, the worker    *)
(* threads run them, the main thread waits for all of them.                *)

Workers == 2       \* worker threads of the pool

\* uuid-based values are modelled as fresh: the n-th Identity generated
StudyUidOf(n) == Uid(n)
PatientIdOf(n) == AnonId(n)

NewTask_shared(patient) ==
  [folder |-> CHOOSE f \in CanonicalFolders(dir) : TRUE, st |-> "queued", ident |-> 0,
   files |-> <<>>, read |-> <<>>, written |-> <<>>, result |-> "none", orig |-> <<>>]
NewTask(patient) ==
  [folder |-> patient, st |-> "queued", ident |-> 0, files |-> <<>>,
   read |-> <<>>, written |-> <<>>, result |-> "none", orig |-> <<>>]

\* lines 148-150
PatientFolders(d) == Sorted(CanonicalFolders(d))
ToProcess(d, start_index) == SliceFrom(PatientFolders(d), start_index - 1)

\* lines 148-154 and the submission of line 170
AAPStart ==
  /\ pc = "aap_start"
  /\ toProcess' = ToProcess(dir, startIndex)
  /\ tasks' = [i \in 1..Len(toProcess') |-> NewTask(toProcess'[i])]
  /\ lock' = 0
  /\ summary' = <<>>
  /\ pc' = "aap_wait"
  /\ UNCHANGED <<recVars, runVars, fsVars, entry, calls, raised, startIndex, af,
                 successes, failures, nextUid, faults, histVars>>

Running(i) == tasks[i].st \in {"walk", "returned", "locked"}

\* the pool hands the queued tasks to its threads in submission order
CanStart_failFast(i) ==
  /\ tasks[i].st = "queued"
  /\ \A j \in 1..(i - 1) : tasks[j].st # "queued"
  /\ Cardinality({j \in DOMAIN tasks : Running(j)}) < Workers
  /\ \A j \in DOMAIN tasks : tasks[j].result \notin {"false", "raised"}
CanStart(i) ==
  /\ tasks[i].st = "queued"
  /\ \A j \in 1..(i - 1) : tasks[j].st # "queued"
  /\ Cardinality({j \in DOMAIN tasks : Running(j)}) < Workers

\* line 182: the files anonimize_patient takes for records
IsRecordFile(name) == EndsWith(name, DcmExt)
RecordFiles(files) ==
  LET recs == SelectSeq(files, LAMBDA f : IsRecordFile(f.name))
  IN [i \in 1..Len(recs) |-> recs[i].name]

\* lines 156-158, 176-180: the task starts, the Identity is generated, the
\* walk lists the folder
TaskBegin(i) ==
  /\ pc = "aap_wait" /\ CanStart(i)
  /\ nextUid' = nextUid + 1
  /\ tasks' = [tasks EXCEPT ![i].st = "walk",
                            ![i].ident = nextUid + 1,
                            ![i].files = RecordFiles(dir[tasks[i].folder]),
                            ![i].orig = dir[tasks[i].folder]]
  /\ UNCHANGED <<recVars, runVars, fsVars, mainVars, toProcess, lock, successes, failures,
                 summary, faults, histVars>>

\* an exception raised in anonimize_patient outside the try of lines
\* 184-192 (MemoryError and the like) reaches the except of line 164
TaskRaise(i) ==
  /\ pc = "aap_wait" /\ tasks[i].st = "walk"
  /\ faults < MaxFaults
  /\ faults' = faults + 1
  /\ tasks' = [tasks EXCEPT ![i].st = "returned", ![i].result = "raised"]
  /\ UNCHANGED <<recVars, runVars, fsVars, mainVars, toProcess, lock, successes, failures,
                 summary, nextUid, histVars>>

\* the Identity lines 186-187 use for a record of the task
IdentityFor_perRecord(task) == 10 * task.ident + Len(task.files)
IdentityFor(task) == task.ident

\* lines 185-187: the record as save_as is asked to write it
ProcessedRecord(data, ident) ==
  anonymize_dicom(repair_dicom(data), StudyUidOf(ident), PatientIdOf(ident))

ReplaceFile(files, f) ==
  [k \in 1..Len(files) |-> IF files[k].name = f.name THEN f ELSE files[k]]

\* lines 191-192: the task after a fault on the record named name
OnRecordFault_continue(t, name) ==
  [t EXCEPT !.files = Tail(t.files), !.read = Append(t.read, name)]
OnRecordFault(t, name) ==
  [t EXCEPT !.st = "returned", !.result = "false", !.read = Append(t.read, name)]

\* lines 181-192 for the next record of the walk: dcmread raises on a
\* corrupt file, save_as raises on a read-only one
TaskRecord(i) ==
  /\ pc = "aap_wait" /\ tasks[i].st = "walk" /\ tasks[i].files # <<>>
  /\ LET t == tasks[i]
         f == FileNamed(dir[t.folder], Head(t.files))
     IN IF f.kind \in {"corrupt", "readonly"}
        THEN /\ tasks' = [tasks EXCEPT ![i] = OnRecordFault(t, f.name)]
             /\ UNCHANGED dir
        ELSE /\ dir' = [dir EXCEPT ![t.folder] =
                          ReplaceFile(dir[t.folder],
                             [f EXCEPT !.data = ProcessedRecord(f.data, IdentityFor(t))])]
             /\ tasks' = [tasks EXCEPT ![i].files = Tail(t.files),
                                       ![i].read = Append(t.read, f.name),
                                       ![i].written = Append(t.written, f.name)]
  /\ UNCHANGED <<recVars, runVars, zips, mainVars, toProcess, lock, successes, failures,
                 summary, nextUid, faults, histVars>>

\* line 193: the walk is over
TaskReturn(i) ==
  /\ pc = "aap_wait" /\ tasks[i].st = "walk" /\ tasks[i].files = <<>>
  /\ tasks' = [tasks EXCEPT ![i].st = "returned", ![i].result = "true"]
  /\ UNCHANGED <<recVars, runVars, fsVars, mainVars, toProcess, lock, successes, failures,
                 summary, nextUid, faults, histVars>>

\* lines 159 and 165: with lock
TaskLock(i) ==
  /\ pc = "aap_wait" /\ tasks[i].st = "returned"
  /\ lock = 0
  /\ lock' = i
  /\ tasks' = [tasks EXCEPT ![i].st = "locked"]
  /\ UNCHANGED <<recVars, runVars, fsVars, mainVars, toProcess, successes, failures,
                 summary, nextUid, faults, histVars>>

\* lines 160-163 and 166: <<successes, failures>> after the append
AppendOutcome_noElse(succ, fail, patient, result) ==
  << IF result = "true" THEN Append(succ, patient) ELSE succ, Append(fail, patient) >>
AppendOutcome(succ, fail, patient, result) ==
  IF result = "true" THEN <<Append(succ, patient), fail>>
  ELSE <<succ, Append(fail, patient)>>

\* lines 160-167, the lock being released on leaving the with block
TaskAppend(i) ==
  /\ pc = "aap_wait" /\ tasks[i].st = "locked" /\ lock = i
  /\ LET out == AppendOutcome(successes, failures, tasks[i].folder, tasks[i].result)
     IN successes' = out[1] /\ failures' = out[2]
  /\ lock' = 0
  /\ tasks' = [tasks EXCEPT ![i].st = "done"]
  /\ UNCHANGED <<recVars, runVars, fsVars, mainVars, toProcess, summary, nextUid, faults,
                 histVars>>

AllDone == \A i \in DOMAIN tasks : tasks[i].st = "done"

\* lines 169-173: the with block ends when every task has finished, then
\* the summary is logged and printed and the method returns
AAPSummary ==
  /\ pc = "aap_wait" /\ AllDone
  /\ summary' = <<Len(successes), Len(failures)>>
  /\ batchLog' = Append(batchLog,
        [selected |-> SeqToSet(toProcess),
         ok |-> { tasks[i].folder : i \in { j \in DOMAIN tasks : tasks[j].result = "true" } }])
  /\ pc' = "idle"
  \* lines 69-70 of run()
  /\ printed' = IF entry = "run" THEN "completed" ELSE printed
  /\ UNCHANGED <<recVars, fsVars, entry, calls, raised, startIndex, af, unzipQ,
                 toProcess, tasks, lock, successes, failures, nextUid, faults,
                 afg, lastAF, touched, assignLog>>

\* a step of some worker thread
TaskNext ==
  \E i \in DOMAIN tasks :
     \/ TaskLock(i) \/ TaskAppend(i) \/ TaskReturn(i) \/ TaskRaise(i)
     \/ TaskBegin(i) \/ TaskRecord(i)

MaxBatchCalls == 2

\* the caller invokes Anonymizer.anonimize_all_patients(start_index)
CallAnonimizeAllPatients ==
  /\ pc = "idle" /\ Len(batchLog) < MaxBatchCalls
  /\ \E k \in 1..Cardinality(CanonicalFolders(dir)) : startIndex' = k
  /\ pc' = "aap_start" /\ entry' = "batch" /\ calls' = calls + 1 /\ raised' = "none"
  /\ UNCHANGED <<recVars, runVars, fsVars, af, poolVars, faults, histVars>>

\* the directories the batch specification starts from: canonical folders
\* whose records are readable and writable, unreadable or read-only
Dcm3 == <<"3",".","d","c","m">>
UpperDcm == <<"4",".","D","C","M">>
RecIds == Put(Put(RecNoTags, "StudyInstanceUID", OrigText), "PatientID", OrigText)

Patient1 == CanonicalName(1, <<"F">>, <<"4","5">>)
Patient10 == CanonicalName(10, NO_SEX, NO_AGE)

ThreeRecords(k1, k2, k3) ==
  <<File(Dcm1, RecIds, k1), File(Dcm2, RecIds, k2), File(Dcm3, RecTags, k3)>>

BatchFolders ==
  [ p1 : { ThreeRecords("good", "good", "good"), ThreeRecords("good", "corrupt", "good"),
           ThreeRecords("good", "readonly", "good"), ThreeRecords("good", "good", "readonly"),
           ThreeRecords("good", "corrupt", "corrupt") },
    p2 : { <<File(Dcm1, RecIds, "good"), File(UpperDcm, RecIds, "good")>>,
           <<File(Dcm1, RecIds, "corrupt"), File(UpperDcm, RecIds, "good")>> },
    p10 : { <<File(Dcm1, RecIds, "good")>>, <<File(Dcm1, RecIds, "readonly")>> } ]

BatchDirs ==
  { DirPut(DirPut(DirPut(EmptyDir, Patient1, b.p1), OldPatient, b.p2), Patient10, b.p10) :
      b \in BatchFolders }
  \cup { DirPut(DirPut(EmptyDir, Patient1, b.p1), OldPatient, b.p2) : b \in BatchFolders }

BatchInit ==
  /\ IdleRec /\ IdleMain /\ IdlePool /\ IdleHist
  /\ zips = {} /\ faults = 0
  /\ dir \in BatchDirs

BatchNext ==
  \/ CallAnonimizeAllPatients \/ AAPStart \/ AAPSummary
  \/ \E i \in DOMAIN tasks : TaskBegin(i)
  \/ \E i \in DOMAIN tasks : TaskRaise(i)
  \/ \E i \in DOMAIN tasks : TaskRecord(i)
  \/ \E i \in DOMAIN tasks : TaskReturn(i)
  \/ \E i \in DOMAIN tasks : TaskLock(i)
  \/ \E i \in DOMAIN tasks : TaskAppend(i)

SpecBatch == BatchInit /\ [][BatchNext]_vars

-----------------------------------------------------------------------------
(* AnonymizerInterface.run and UnzipManager *)

Archive(n, folder, files, k) == [name |-> n, folder |-> folder, files |-> files, kind |-> k]

\* AnonymizerInterface.has_archives
has_archives_always(z) == TRUE
has_archives(z) == \E a \in z : EndsWith(a.name, ZipExt)

\* UnzipManager.__enter__: self.zip_files
ZipFiles(z) == { a \in z : EndsWith(Lower(a.name), ZipExt) }

\* ZipFile.extractall into the working directory: the members replace the
\* files of the same name, the other files of an existing folder stay
RECURSIVE MergeFiles(_, _)
MergeFiles(old, new) ==
  IF new = <<>> THEN old ELSE MergeFiles(WithFile(old, Head(new)), Tail(new))
ExtractAll(d, a) ==
  DirPut(d, a.folder, MergeFiles(IF a.folder \in DOMAIN d THEN d[a.folder] ELSE <<>>, a.files))

\* a caller invokes run(), on the AnonymizerInterface of an earlier run or on
\* a new one, whose Anonymizer starts with empty lists (lines 27, 75-76)
MaxRuns == 2

CallRun ==
  /\ pc = "idle" /\ calls < MaxRuns
  /\ pc' = "run_check" /\ entry' = "run" /\ calls' = calls + 1 /\ raised' = "none"
  /\ printed' = "none"
  /\ \/ UNCHANGED <<successes, failures>>
     \/ calls > 0 /\ (successes # <<>> \/ failures # <<>>)
        /\ successes' = <<>> /\ failures' = <<>>
  /\ UNCHANGED <<recVars, fsVars, startIndex, af, unzipQ, toProcess, tasks, lock,
                 summary, nextUid, faults, histVars>>

\* lines 55-62
RunCheck ==
  /\ pc = "run_check"
  /\ IF has_archives(zips)
     THEN pc' = "run_list" /\ printed' = "unzipping"
     ELSE pc' = "idle" /\ printed' = "no_archives"
  /\ UNCHANGED <<recVars, fsVars, entry, calls, raised, startIndex, af, unzipQ,
                 poolVars, faults, histVars>>

\* unzip_manager.py line 20
RunList ==
  /\ pc = "run_list"
  /\ unzipQ' \in Listings(ZipFiles(zips))
  /\ pc' = "run_unzip"
  /\ UNCHANGED <<recVars, fsVars, entry, calls, raised, startIndex, af, printed,
                 poolVars, faults, histVars>>

\* where the main thread stands after zipfile raised: neither __enter__,
\* unzip_all nor run() has a handler, the exception leaves run()
AfterExtractError_swallowed == "run_unzip"
AfterExtractError == "idle"

\* unzip_manager.py lines 21-23 for the next archive; an archive zipfile
\* cannot open raises BadZipFile
RunExtract ==
  /\ pc = "run_unzip" /\ unzipQ # <<>>
  /\ LET a == Head(unzipQ)
     IN IF a.kind = "bad"
        THEN /\ raised' = "BadZipFile" /\ pc' = AfterExtractError /\ unzipQ' = <<>>
             /\ UNCHANGED <<dir, touched>>
        ELSE /\ dir' = ExtractAll(dir, a)
             /\ unzipQ' = Tail(unzipQ)
             /\ touched' = TRUE
             /\ UNCHANGED <<raised, pc>>
  /\ UNCHANGED <<recVars, zips, entry, calls, startIndex, af, printed,
                 poolVars, faults, afg, lastAF, assignLog, batchLog>>

\* lines 64-67 and 50: the start index is computed, anonimize_patients called
RunIndex ==
  /\ pc = "run_unzip" /\ unzipQ = <<>>
  /\ printed' = "starting"
  /\ startIndex' = get_last_patient_index(dir) + 1
  /\ pc' = "af_start"
  /\ UNCHANGED <<recVars, fsVars, entry, calls, raised, af, unzipQ,
                 poolVars, faults, histVars>>

\* the archives and other files that are put into ZIPS_PATH between two runs
MaxZips == 2
ArchiveA == Archive(<<"a",".","z","i","p">>,
                    <<"I","v","a","n","o","v","a","_","zh","4","5">>,
                    <<File(Dcm1, RecIds, "good")>>, "good")
ArchiveB == Archive(<<"b",".","Z","I","P">>, <<"m","3","0">>,
                    <<File(Dcm1, RecTags, "good")>>, "good")
Notes == Archive(<<"n",".","t","x","t">>, <<>>, <<>>, "good")
ArchiveBad == Archive(<<"c",".","z","i","p">>, <<>>, <<>>, "bad")
ZipPool == {ArchiveA, ArchiveB, ArchiveBad, Notes}

AddArchive ==
  /\ pc = "idle" /\ calls < MaxRuns
  /\ Cardinality(zips) < MaxZips
  /\ \E a \in ZipPool \ zips : zips' = zips \cup {a}
  /\ UNCHANGED <<recVars, runVars, dir, mainVars, poolVars, faults, histVars>>

RemoveArchive ==
  /\ pc = "idle" /\ calls < MaxRuns
  /\ \E a \in zips : zips' = zips \ {a}
  /\ UNCHANGED <<recVars, runVars, dir, mainVars, poolVars, faults, histVars>>

RunInit ==
  /\ IdleRec /\ IdleMain /\ IdlePool /\ IdleHist
  /\ faults = 0
  /\ dir = EmptyDir
  /\ zips \in { {}, {ArchiveA} }

RunNext ==
  \/ CallRun \/ RunCheck \/ RunList \/ RunExtract \/ RunIndex
  \/ AFStart \/ AFFolder \/ AFMove \/ AFRmdirOk \/ AFRmdirFails \/ AFDone
  \/ AAPStart \/ AAPSummary
  \/ \E i \in DOMAIN tasks : TaskBegin(i)
  \/ \E i \in DOMAIN tasks : TaskRaise(i)
  \/ \E i \in DOMAIN tasks : TaskRecord(i)
  \/ \E i \in DOMAIN tasks : TaskReturn(i)
  \/ \E i \in DOMAIN tasks : TaskLock(i)
  \/ \E i \in DOMAIN tasks : TaskAppend(i)
  \/ AddArchive \/ RemoveArchive

SpecRun == RunInit /\ [][RunNext]_vars

-----------------------------------------------------------------------------
(* C4, C5, C6: anonimize_folders over several calls *)

C5_IndexUniqueAndGreater ==
  /\ \A f, g \in CanonicalFolders(dir) :
        f # g => FolderIndex(f) \cap FolderIndex(g) = {}
  /\ \A h \in {afg, lastAF.g} :
        \A a \in h.assigned : \A e \in h.startIdx : a > e

\* a call that found canonical folders has assigned an index, and the
\* directory holds several canonical folders
C5_Witness ==
  /\ lastAF.ran /\ lastAF.g.assigned # {} /\ lastAF.g.startIdx # {}
  /\ Cardinality(CanonicalFolders(dir)) >= 2

\* C6 as stated: an index is never assigned to two different raw folders.
C6_IndexNeverReused ==
  \A i, j \in 1..Len(assignLog) :
     (i < j /\ assignLog[i].idx = assignLog[j].idx) =>
        assignLog[i].raw = assignLog[j].raw

\* C6 amended: an index is assigned to a second raw folder only by a call
\* at whose start no canonical folder with that index or a greater one was
\* in the working directory.
C6_IndexReusedOnlyAboveMax ==
  \A i, j \in 1..Len(assignLog) :
     (i < j /\ assignLog[i].idx = assignLog[j].idx
            /\ assignLog[i].raw # assignLog[j].raw) =>
        assignLog[j].startMax < assignLog[i].idx

\* two raw folders were classified by two calls, the later one starting
\* from a directory that holds a canonical folder
C6_Witness ==
  \E i, j \in 1..Len(assignLog) :
     /\ i < j /\ assignLog[i].raw # assignLog[j].raw
     /\ assignLog[j].startMax >= assignLog[i].idx
     /\ assignLog[j].idx > assignLog[i].idx

-----------------------------------------------------------------------------
(* C2, C7, C8, C9: the tasks of anonimize_all_patients *)

Started(i) == tasks[i].st # "queued"
Count(q, x) == Cardinality({ k \in DOMAIN q : q[k] = x })
IsPrefix(p, q) == Len(p) <= Len(q) /\ SubSeq(q, 1, Len(p)) = p

\* the record named n of task i's folder carries the task's Identity in every
\* attribute the study-UID rule or the patient-id rule rewrites
CarriesIdentity(i, n) ==
  LET r == FileNamed(dir[tasks[i].folder], n).data
  IN \A a \in DOMAIN r :
        /\ a \in StudyUidNames => r[a] = StudyUidOf(tasks[i].ident)
        /\ a \in PatientIdNames \ StudyUidNames => r[a] = PatientIdOf(tasks[i].ident)

\* C2: a call of anonimize_patient generates its Identity once, before the
\* first record is read; every record it has written carries that study UID
\* and that patient id; two folders of one batch never get the same Identity.
C2_OneIdentityPerFolder ==
  /\ \A i \in DOMAIN tasks :
        /\ tasks[i].read # <<>> => tasks[i].ident # 0
        /\ tasks[i].folder \in DOMAIN dir =>
             \A k \in DOMAIN tasks[i].written : CarriesIdentity(i, tasks[i].written[k])
  /\ \A i, j \in DOMAIN tasks :
        (i # j /\ Started(i) /\ Started(j)) => tasks[i].ident # tasks[j].ident

C2_Witness ==
  \E i, j \in DOMAIN tasks :
     /\ i # j /\ Len(tasks[i].written) >= 2 /\ Len(tasks[j].written) >= 1
     /\ tasks[i].st = "walk" /\ tasks[j].st = "walk"
     /\ \E a \in StudyUidNames :
           a \in DOMAIN FileNamed(dir[tasks[i].folder], tasks[i].written[2]).data

\* C7: when the k-th record of a folder cannot be read or written, the call
\* returns failure at once: records 1..k-1 are on disk in anonymized form,
\* record k and the records after it are as they were, no later record was
\* read, and the folder ends in failures and not in successes.
C7_FirstFaultAborts ==
  \A i \in DOMAIN tasks :
   /\ \A m \in DOMAIN tasks[i].read :
         FileNamed(tasks[i].orig, tasks[i].read[m]).kind \in {"corrupt", "readonly"} =>
            (m = Len(tasks[i].read) /\ tasks[i].result = "false")
   /\ (tasks[i].result = "false" /\ tasks[i].folder \in DOMAIN dir) =>
        LET t == tasks[i]
            all == RecordFiles(t.orig)
            k == Len(t.read)
        IN /\ k >= 1 /\ IsPrefix(t.read, all)
           /\ t.written = SubSeq(all, 1, k - 1)
           /\ \A m \in DOMAIN t.orig :
                 LET o == t.orig[m]
                     now == FileNamed(dir[t.folder], o.name)
                 IN IF \E w \in DOMAIN t.written : t.written[w] = o.name
                    THEN now.data = ProcessedRecord(o.data, t.ident)
                    ELSE now = o
           /\ t.st = "done" =>
                 /\ Count(failures, t.folder) >= 1
                 /\ Count(successes, t.folder) = 0

C7_Witness ==
  \E i \in DOMAIN tasks :
     /\ tasks[i].st = "done" /\ tasks[i].result = "false"
     /\ Len(tasks[i].read) = 2 /\ Len(RecordFiles(tasks[i].orig)) = 3
     /\ FileNamed(dir[tasks[i].folder], tasks[i].written[1]).data
          # FileNamed(tasks[i].orig, tasks[i].written[1]).data

HasFaultyRecord(files) ==
  \E m \in DOMAIN files :
     IsRecordFile(files[m].name) /\ files[m].kind \in {"corrupt", "readonly"}

\* C8: a fault in the task of one folder never stops or fails the task of
\* another: while the batch runs some task can always take a step until all
\* have finished, every selected folder's task runs to the outcome of its own
\* folder, and no exception leaves anonimize_all_patients.
C8_TasksIndependent ==
  /\ pc = "aap_wait" => (raised = "none" /\ (AllDone \/ ENABLED TaskNext))
  /\ (pc = "idle" /\ entry = "batch" /\ summary # <<>>) =>
        /\ raised = "none"
        /\ Len(tasks) = Len(toProcess)
        /\ \A i \in DOMAIN tasks :
              /\ tasks[i].st = "done"
              /\ tasks[i].result = "false" <=>
                    (HasFaultyRecord(tasks[i].orig) /\ tasks[i].result # "raised")
              /\ tasks[i].result = "true" =>
                    tasks[i].written = RecordFiles(tasks[i].orig)

C8_Witness ==
  /\ pc = "idle" /\ entry = "batch" /\ summary # <<>>
  /\ \E i, j \in DOMAIN tasks :
        /\ i < j
        /\ tasks[i].result = "false" /\ tasks[j].result = "true"
        /\ tasks[j].written # <<>>

\* C9: the summary is emitted only after every task has finished, and on a
\* fresh Anonymizer every selected folder is then exactly once in exactly one
\* of successes and failures, the summary giving the lengths of the two.
C9_SummaryAfterAllTasks ==
  /\ summary # <<>> => AllDone
  /\ (Len(batchLog) = 0 /\ pc = "aap_wait") =>
        \A i \in DOMAIN tasks :
           Count(successes, tasks[i].folder) + Count(failures, tasks[i].folder)
              = (IF tasks[i].st = "done" THEN 1 ELSE 0)
  /\ (Len(batchLog) = 1 /\ summary # <<>>) =>
        /\ \A i \in DOMAIN toProcess :
              Count(successes, toProcess[i]) + Count(failures, toProcess[i]) = 1
        /\ SeqToSet(successes) \cup SeqToSet(failures) = SeqToSet(toProcess)
        /\ summary = <<Len(successes), Len(failures)>>
        /\ summary[1] + summary[2] = Len(toProcess)

C9_Witness ==
  /\ Len(batchLog) = 1 /\ summary # <<>>
  /\ summary[1] >= 1 /\ summary[2] >= 1 /\ Len(toProcess) = 3

-----------------------------------------------------------------------------
(* C3, C10: run() *)

\* C3: a second run() does not process again a canonical folder that an
\* earlier run anonymized: no task of a later run is started for it, so its
\* records are not rewritten and no new Identity is generated for it.
C3_NoReprocessing ==
  (pc = "aap_wait" /\ entry = "run") =>
     \A i \in DOMAIN tasks :
        Started(i) => \A k \in DOMAIN batchLog : tasks[i].folder \notin batchLog[k].ok

NoArchive(z) == \A a \in z : ~EndsWith(Lower(a.name), ZipExt)

\* C10: when the input directory holds no archive, run() returns straight
\* after the check: nothing is extracted, no folder is renamed, no record is
\* read or written, and the working directory, the input directory and the
\* success and failure lists are left as they were.
C10_NoArchiveNoWork ==
  [][ (pc = "run_check" /\ NoArchive(zips)) =>
         /\ pc' = "idle" /\ raised' = "none"
         /\ UNCHANGED <<dir, zips, successes, failures, tasks, nextUid, assignLog,
                        batchLog, unzipQ>> ]_vars

C10_Witness ==
  /\ pc = "idle" /\ entry = "run" /\ printed = "no_archives"
  /\ NoArchive(zips) /\ zips # {}
  /\ \E f \in DOMAIN dir : IsPatientFolder(f)

-----------------------------------------------------------------------------
(* C20: anonimize_folders killed and run again *)

\* the canonical folders that hold entries of the raw folder named raw
HoldersOf(raw) ==
  { assignLog[k].new : k \in { j \in DOMAIN assignLog :
        /\ assignLog[j].raw = raw
        /\ assignLog[j].new \in DOMAIN dir
        /\ dir[assignLog[j].new] # <<>> } }

\* C20: once a call of anonimize_folders has run to its end, also after
\* earlier calls were killed at any point, the entries moved out of one raw
\* folder are in one canonical folder, not spread over two.
C20_NoSplitAfterCrash ==
  (lastAF.ran /\ lastAF.completed) =>
     \A k \in DOMAIN assignLog : Cardinality(HoldersOf(assignLog[k].raw)) <= 1

-----------------------------------------------------------------------------
(* C18: failures of shutil.move and os.rmdir *)

RawNames(names) == { f \in names : ~StartsWith(f, <<"p","a","t","i","e","n","t","_","_">>) }

\* C18: a call of anonimize_folders in which a move or the removal of a raw
\* folder failed still returns without an exception, having classified every
\* raw folder of its listing.
C18_MoveFailureNotFatal ==
  (lastAF.ran /\ (lastAF.g.moveFailed \/ lastAF.g.rmFailed)) =>
     /\ lastAF.completed
     /\ Cardinality(lastAF.g.assigned) = Cardinality(RawNames(lastAF.g.namesBefore))

-----------------------------------------------------------------------------
(* C17: the canonical folders anonimize_folders finds *)

InFolders == pc \in {"af_loop", "af_move"}

\* C17: while anonimize_folders runs, and so when it ends, every folder that
\* was canonical when it started is still there under its name with the
\* entries it had, whatever raw folders are classified in the same call.
C17_CanonicalFoldersUntouched ==
  InFolders =>
     \A f \in DOMAIN afg.contentBefore :
        f \in DOMAIN dir /\ dir[f] = afg.contentBefore[f]

C17_Witness ==
  /\ pc = "af_loop" /\ af.todo = <<>>
  /\ DOMAIN afg.contentBefore # {}
  /\ Cardinality(afg.assigned) >= 2
  /\ afg.moveFailed

-----------------------------------------------------------------------------
(* C16: the attributes anonymize_dicom does not select *)

IdentifyingTokens ==
  { <<"a","c","q","u","i","s","i","t","i","o","n">>, <<"b","i","t","s">>,
    <<"d","a","t","e">>, <<"t","i","m","e">>,
    <<"m","a","n","u","f","a","c","t","u","r","e","r">>,
    <<"p","a","t","i","e","n","t">>, <<"n","a","m","e">>, <<"s","t","u","d","y">> }

HoldsNoToken(a) == \A t \in IdentifyingTokens : ~Contains(t, Lower(Keyword[a]))

\* C16: anonymize_dicom leaves every attribute whose lower-cased name holds
\* none of the identifying tokens with the value it had, also when the name
\* holds "uid" or "id"; it neither adds nor removes an attribute.
C16_UnselectedUntouched ==
  [][ rstage = "repaired" =>
        /\ DOMAIN rec' = DOMAIN rec
        /\ \A a \in DOMAIN rec : HoldsNoToken(a) => rec'[a] = rec[a] ]_vars

C16_Witness ==
  /\ rstage = "anonymized"
  /\ HasAttr(rec, "SOPInstanceUID") /\ HoldsNoToken("SOPInstanceUID")
  /\ rec["SOPInstanceUID"] = rec0["SOPInstanceUID"]
  /\ HasAttr(rec, "PatientName") /\ rec["PatientName"] # rec0["PatientName"]

-----------------------------------------------------------------------------
(* C15, C19: the canonical names anonimize_folders builds *)

Ivanova == <<"I","v","a","n","o","v","a","_","zh","4","5">>
NameOf(idx, sex, age) ==
  <<"p","a","t","i","e","n","t","_","_">> \o Str(idx) \o <<"_">> \o sex \o <<"_">> \o age
NoSex == <<"N","O","_","S","E","X">>
NoAge == <<"N","O","_","A","G","E">>

\* what the name heuristic is to give for the raw folder names of the model
SexInName(raw) ==
  CASE raw = Ivanova -> <<"F">> [] raw = <<"m","3","0">> -> <<"M">> [] OTHER -> NoSex
AgeInName(raw) ==
  CASE raw = Ivanova -> <<"4","5">> [] raw = <<"m","3","0">> -> <<"3","0">> [] OTHER -> NoAge

\* C15: the raw folder Ivanova_zh45 whose first readable record has neither
\* sex nor age becomes patient__{N}_F_45, N being the index assigned to it;
\* whenever the records give no sex, the sex is the one the folder name
\* shows and an age missing from the records is the one the name shows.
C15_TagsFromFolderName ==
  \A k \in DOMAIN assignLog :
     LET e == assignLog[k] IN
     /\ (e.raw = Ivanova /\ e.fromDicom = <<NoSex, NoAge>>) =>
           e.new = NameOf(e.idx, <<"F">>, <<"4","5">>)
     /\ e.fromDicom[1] = NoSex =>
           e.new = NameOf(e.idx, SexInName(e.raw),
                          IF e.fromDicom[2] = NoAge THEN AgeInName(e.raw)
                          ELSE e.fromDicom[2])

C15_Witness ==
  /\ \E k \in DOMAIN assignLog :
        /\ assignLog[k].raw = Ivanova
        /\ assignLog[k].fromDicom = <<NoSex, NoAge>>
        /\ assignLog[k].new \in DOMAIN dir
        /\ dir[assignLog[k].new] # <<>>
  /\ \E k \in DOMAIN assignLog :
        /\ assignLog[k].raw = <<"m","3","0">>
        /\ assignLog[k].fromDicom[1] = NoSex /\ assignLog[k].fromDicom[2] # NoAge

TwoDigits == { <<a, b>> : a \in SeqToSet(DigitChars), b \in SeqToSet(DigitChars) }

\* C19: every canonical name anonimize_folders builds is
\* patient__{index}_{sex}_{age} with sex one of M, F, NO_SEX and age a
\* two-digit string or NO_AGE.
C19_CanonicalNameForm ==
  \A k \in DOMAIN assignLog :
     \E sex \in {<<"M">>, <<"F">>, NoSex}, age \in TwoDigits \cup {NoAge} :
        assignLog[k].new = NameOf(assignLog[k].idx, sex, age)

-----------------------------------------------------------------------------
(* C12, C13, C14: geometry repair, rec0 being the record before repair *)

Repaired == rstage \in {"repaired", "fixed"}

\* C12: after repair by either implementation the orientation is the fixed
\* default [1,0,0,0,1,0] when it was absent or empty before, and is its value
\* before repair when it was present and non-empty.
C12_OrientationRepair ==
  Repaired =>
     /\ HasAttr(rec, "ImageOrientationPatient")
     /\ IF HasAttr(rec0, "ImageOrientationPatient") /\ rec0["ImageOrientationPatient"][2] # <<>>
        THEN rec["ImageOrientationPatient"] = rec0["ImageOrientationPatient"]
        ELSE rec["ImageOrientationPatient"] = Num(<<100, 0, 0, 0, 100, 0>>)

C12_Witness ==
  /\ rstage = "fixed"
  /\ HasAttr(rec0, "ImageOrientationPatient") /\ rec0["ImageOrientationPatient"][2] # <<>>
  /\ ~HasAttr(rec0, "PixelSpacing")

\* C13: after repair by either implementation PixelSpacing is [0.4, 0.4] when
\* it was absent or [0, 0] before, and is its value before repair for every
\* other present value, whatever happened to the orientation and to the slice
\* spacing of the same record.
C13_PixelSpacingRepair ==
  Repaired =>
     /\ HasAttr(rec, "PixelSpacing")
     /\ IF HasAttr(rec0, "PixelSpacing") /\ rec0["PixelSpacing"] # Num(<<0, 0>>)
        THEN rec["PixelSpacing"] = rec0["PixelSpacing"]
        ELSE rec["PixelSpacing"] = Num(<<40, 40>>)

C13_Witness ==
  /\ rstage = "repaired"
  /\ HasAttr(rec0, "PixelSpacing") /\ rec0["PixelSpacing"] = Num(<<30, 30>>)
  /\ ~HasAttr(rec0, "ImageOrientationPatient")
  /\ ~HasAttr(rec0, "SpacingBetweenSlices")

\* C14: after repair by either implementation a slice spacing that was absent
\* is the slice thickness of the record if it has one and 0.32 otherwise, a
\* slice spacing that was present is unchanged, and the slice thickness is as
\* before (present with the same value, or absent).
C14_SliceSpacingRepair ==
  Repaired =>
     /\ HasAttr(rec, "SpacingBetweenSlices")
     /\ rec["SpacingBetweenSlices"] =
          (IF HasAttr(rec0, "SpacingBetweenSlices") THEN rec0["SpacingBetweenSlices"]
           ELSE IF HasAttr(rec0, "SliceThickness") THEN rec0["SliceThickness"]
           ELSE Num(<<32>>))
     /\ HasAttr(rec, "SliceThickness") <=> HasAttr(rec0, "SliceThickness")
     /\ HasAttr(rec0, "SliceThickness") => rec["SliceThickness"] = rec0["SliceThickness"]

C14_Witness ==
  /\ rstage = "repaired"
  /\ ~HasAttr(rec0, "SpacingBetweenSlices") /\ HasAttr(rec0, "SliceThickness")
  /\ rec["SpacingBetweenSlices"] = rec0["SliceThickness"]

-----------------------------------------------------------------------------
(* C11: an archive that cannot be extracted *)

\* C11: when the extraction of an archive raises, the error leaves run() and
\* that run neither classifies folders nor anonymizes records: from the call
\* of run() to the raise no folder is renamed, no record is rewritten and no
\* task is started, and the run is over at the raise.
C11_ExtractionErrorIsFatal ==
  /\ [](raised = "BadZipFile" => (pc = "idle" /\ printed = "unzipping"))
  /\ [][ (entry' = "run" /\ printed' \in {"none", "unzipping"}) =>
            /\ CanonicalContent(dir') = CanonicalContent(dir)
            /\ UNCHANGED <<assignLog, tasks, nextUid>>
            /\ pc # "idle" => UNCHANGED <<successes, failures>> ]_vars

C11_Witness ==
  /\ raised = "BadZipFile" /\ pc = "idle" /\ entry = "run"
  /\ RawFolders(dir) # {}
  /\ CanonicalFolders(dir) # {}

-----------------------------------------------------------------------------
(* C21: the start index run() computes *)

\* the greatest index in the names patient__{index}_{sex}_{age} of d, 0
\* when d holds no such folder
GreatestIndex(d) == IF UsedIndexes(d) = {} THEN 0 ELSE MaxOf(UsedIndexes(d))

\* C21: get_last_patient_index returns the greatest index among the canonical
\* folders of the working directory (0 without canonical folder), so the
\* start index run() passes on is that index plus one.
C21_LastIndexIsGreatest ==
  [][ (pc = "run_unzip" /\ pc' = "af_start") =>
         startIndex' = GreatestIndex(dir) + 1 ]_vars

-----------------------------------------------------------------------------
(* C22: the folders anonimize_all_patients selects *)

\* the canonical folders of d whose index is at least k
FromIndex(d, k) ==
  { f \in CanonicalFolders(d) : \E idx \in FolderIndex(f) : idx >= k }

\* C22: anonimize_all_patients(start_index = k) hands to the pool exactly
\* the canonical folders whose index is k or more.
C22_SelectsFromStartIndex ==
  pc = "aap_wait" => SeqToSet(toProcess) = FromIndex(dir, startIndex)

-----------------------------------------------------------------------------
(* C23: the scan of the records of a raw folder *)

\* the records get_sex_and_age_from_dicom can read in a folder
ReadableRecords(files) ==
  { files[i].data : i \in { j \in 1..Len(files) :
       /\ EndsWith(Lower(files[j].name), DcmExt)
       /\ files[j].kind # "corrupt" } }

\* the values a tag has in the readable records of a folder
TagsIn(files, attr) ==
  { TagFromRecord(r, attr, <<>>) : r \in ReadableRecords(files) } \ {<<>>}

\* C23: when a readable record of a raw folder carries a sex value, the sex
\* the scan yields for the folder is the value of one of its records, and
\* likewise for the age: the scan does not stop at a record lacking a value
\* another record has.
C23_ScanUntilBothFound ==
  (pc = "af_move" /\ af.cur \in DOMAIN dir /\ Len(af.items) = Len(dir[af.cur])) =>
     LET files == dir[af.cur]
         fromDicom == assignLog[Len(assignLog)].fromDicom
     IN /\ TagsIn(files, "PatientSex") # {} => fromDicom[1] \in TagsIn(files, "PatientSex")
        /\ TagsIn(files, "PatientAge") # {} => fromDicom[2] \in TagsIn(files, "PatientAge")

-----------------------------------------------------------------------------
(* C24: raw folders without a readable record *)

\* C24: anonimize_folders ends without an error whatever the raw folders
\* hold: a folder without a readable record is classified from its name, and
\* the folders after it are classified too.
C24_NoRecordNoError ==
  (lastAF.ran /\ ~lastAF.g.moveFailed /\ ~lastAF.g.rmFailed) =>
     /\ lastAF.completed
     /\ raised # "TypeError"
     /\ RawNames(lastAF.namesAfter) = {}

-----------------------------------------------------------------------------
(* C25: one task per folder *)

\* the tasks that own folder f
OwnersOf(f) == { i \in DOMAIN tasks : tasks[i].folder = f }

\* C25: in a batch every selected folder is owned by exactly one task; that
\* task takes the folder's records one after the other in listing order; and
\* the files of a folder change only by a step of the one task owning it,
\* whatever the other workers do.
C25_OneWorkerPerFolder ==
  /\ [](pc = "aap_wait" =>
          /\ \A k \in DOMAIN toProcess : Cardinality(OwnersOf(toProcess[k])) = 1
          /\ \A i \in DOMAIN tasks :
                /\ tasks[i].folder \in SeqToSet(toProcess)
                /\ Started(i) => /\ IsPrefix(tasks[i].read, RecordFiles(tasks[i].orig))
                                 /\ IsPrefix(tasks[i].written, tasks[i].read))
  /\ [][ pc = "aap_wait" =>
           \A f \in DOMAIN dir :
              (f \in DOMAIN dir' /\ dir'[f] # dir[f]) =>
                 \E i \in OwnersOf(f) :
                    /\ OwnersOf(f) = {i}
                    /\ tasks[i].st = "walk"
                    /\ Len(tasks'[i].written) = Len(tasks[i].written) + 1
                    /\ \A j \in DOMAIN tasks \ {i} : tasks'[j] = tasks[j] ]_vars

C25_Witness ==
  /\ pc = "aap_wait"
  /\ \E i, j \in DOMAIN tasks :
        /\ i # j /\ tasks[i].st = "walk" /\ tasks[j].st = "walk"
        /\ tasks[i].written # <<>> /\ tasks[j].written # <<>>
        /\ tasks[i].files # <<>>

-----------------------------------------------------------------------------
(* C26: a raw folder one of whose entries cannot be moved *)

\* C26: when the moves of a raw folder have been tried and one of them
\* failed, the raw folder still holds all its entries: none of them is in
\* the canonical folder made for it.
C26_FailedMoveLeavesFolderWhole ==
  (pc = "af_move" /\ af.items = <<>> /\ af.cur \in DOMAIN dir
     /\ \E m \in DOMAIN dir[af.cur] : dir[af.cur][m].kind = "stuck") =>
        dir[af.dst] = <<>>

-----------------------------------------------------------------------------
(* C27: the attributes anonymize_dicom clears *)

HoldsBoth(a, t1, t2) ==
  Contains(t1, Lower(Keyword[a])) /\ Contains(t2, Lower(Keyword[a]))

HoldsCriticalPair(a) == \E kv \in CRITICAL_PATTERNS : HoldsBoth(a, kv[1], kv[2])

\* the attributes that are to be cleared: an identifying token in the name,
\* no critical pair, not "study" with "uid", not "patient" with "id"
ToClear(a) ==
  /\ ~HoldsNoToken(a)
  /\ ~HoldsCriticalPair(a)
  /\ ~HoldsBoth(a, <<"s","t","u","d","y">>, <<"u","i","d">>)
  /\ ~HoldsBoth(a, <<"p","a","t","i","e","n","t">>, <<"i","d">>)

\* C27: after anonymize_dicom every attribute of the record that is to be
\* cleared has the empty string as its value.
C27_IdentifyingCleared ==
  rstage = "anonymized" => \A a \in DOMAIN rec : ToClear(a) => rec[a] = EmptyStr

C27_Witness ==
  /\ rstage = "anonymized"
  /\ HasAttr(rec, "StudyID") /\ ToClear("StudyID") /\ rec0["StudyID"] # EmptyStr
  /\ HasAttr(rec, "PatientAge") /\ ToClear("PatientAge") /\ rec0["PatientAge"] # EmptyStr
  /\ HasAttr(rec, "PatientPosition") /\ ~ToClear("PatientPosition")

-----------------------------------------------------------------------------
(* C28: geometry through repair and anonymization *)

GeometryAttrs == {"ImageOrientationPatient", "PixelSpacing", "SpacingBetweenSlices"}

\* C28: after repair_dicom followed by anonymize_dicom the record holds the
\* orientation, the pixel spacing and the slice spacing with the values they
\* had right after the repair: none is cleared or replaced by an Identity
\* value.
C28_GeometrySurvives ==
  rstage = "anonymized" =>
     \A a \in GeometryAttrs : HasAttr(rec, a) /\ rec[a] = repair_dicom(rec0)[a]

C28_Witness ==
  /\ rstage = "anonymized"
  /\ HasAttr(rec0, "ImageOrientationPatient")
  /\ rec["ImageOrientationPatient"] = rec0["ImageOrientationPatient"]
  /\ rec["ImageOrientationPatient"] # DefaultOrientation
  /\ HasAttr(rec0, "PixelSpacing") /\ rec0["PixelSpacing"] = ZeroSpacing
  /\ rec["PixelSpacing"] = DefaultPixelSpacing
  /\ HasAttr(rec0, "SliceThickness") /\ ~HasAttr(rec0, "SpacingBetweenSlices")
  /\ rec["SpacingBetweenSlices"] = rec0["SliceThickness"]

-----------------------------------------------------------------------------
(* C29: the record files of a folder *)

\* the files classification and extraction take for records: extension
\* .dcm in any case
AnyCaseRecordFiles(files) ==
  { files[m].name : m \in { k \in DOMAIN files : EndsWith(Lower(files[k].name), DcmExt) } }

\* C29: a folder whose task returned success has had each of its record
\* files written in anonymized form, the record files being those with the
\* extension .dcm in any case.
C29_SuccessCoversAllRecords ==
  \A i \in DOMAIN tasks :
     (tasks[i].result = "true" /\ tasks[i].folder \in DOMAIN dir) =>
        \A n \in AnyCaseRecordFiles(tasks[i].orig) :
           /\ n \in SeqToSet(tasks[i].written)
           /\ FileNamed(dir[tasks[i].folder], n).data
                = ProcessedRecord(FileNamed(tasks[i].orig, n).data, tasks[i].ident)

-----------------------------------------------------------------------------
(* C30: the counts of successive calls on one Anonymizer *)

\* C30: when a call of anonimize_all_patients has printed its summary, no
\* folder is twice in successes and failures taken together, and the two
\* counts add up to the number of folders the call selected, also when the
\* Anonymizer has served earlier calls.
C30_CountsOfLastCallOnly ==
  (pc = "idle" /\ summary # <<>>) =>
     /\ \A f \in DOMAIN dir : Count(successes, f) + Count(failures, f) <= 1
     /\ summary[1] + summary[2] = Len(toProcess)

-----------------------------------------------------------------------------
(* C1 *)

\* C1: every attribute whose lower-cased name holds both tokens of a critical
\* pattern pair has, after anonymize_dicom, the value it had when
\* anonymize_dicom was called, whatever else its name contains.
C1_CriticalPreserved ==
  [][ rstage = "repaired" =>
        \A a \in DOMAIN rec : a \in CriticalNames => rec'[a] = rec[a] ]_vars

=============================================================================
